---- MODULE Spec2Model ----
(***************************************************************************)
(* State-machine model of web3/_utils/request.py: the SessionCache class   *)
(* (a bounded OrderedDict with oldest-first eviction), the synchronous     *)
(* session cache (lru.LRU with a closing callback) and the asynchronous    *)
(* session cache guarded by _async_session_cache_lock.                     *)
(*                                                                         *)
(* A behaviour drives one of three clients, fixed by `mode`:               *)
(*   "cache"  calls the methods of one SessionCache object directly;       *)
(*   "sync"   calls get_session / cache_session;                           *)
(*   "async"  runs coroutines calling get_async_session /                  *)
(*            cache_async_session.                                         *)
(***************************************************************************)
EXTENDS Integers, Sequences, FiniteSets, TLC

\* ------------------------------------------------------------- bounds
NumKeys == 3
NumValues == 2
MaxSize == 2
NumProcs == 2
MaxSessions == 3
MaxLruSessions == 9

Keys == 1..NumKeys
Values == 1..NumValues
\* The capacities explored.  The module builds SessionCache(size=20) and
\* lru.LRU(8, ...); the size is a constructor argument and the behaviours
\* below are those of caches of the small capacities in Sizes.
Sizes == 1..MaxSize
\* Coroutines calling the async functions, and the event-loop threads that
\* run them.  ThreadOf is the placement with true parallelism: coroutine 2
\* has a thread of its own, the others share thread 1.
Procs == 1..NumProcs
Threads == {1, 2}
ThreadOf(p) == IF p = 2 THEN 2 ELSE 1
\* Session objects, named in order of construction.
Sessions == 1..MaxSessions
\* lru.LRU(8, callback=_remove_session): the capacity of _session_cache,
\* one endpoint more than it holds, and the sessions built for them.
LruCapacity == 8
LruKeys == 1..(LruCapacity + 1)
LruSessions == 1..MaxLruSessions

VARIABLES
    mode,       \* which client drives this behaviour
    size,       \* SessionCache._size
    data,       \* SessionCache._data: sequence of <<key, value>>, oldest first
    ret,        \* the outcome of the last completed SessionCache method call;
                \* history fields: ret.old is the value cache(key, _) overwrote
                \* (0 if the key was new), ret.expect the value passed to
                \* cache(key, _) when that was the call just before a
                \* get_cache_entry(key) (else 0)
    calls,      \* history: keys passed to cache() so far, while pairwise distinct
    distinct,   \* history: every cache() call so far used a new key
    seen,       \* history: keys ever passed to cache()
    gone,       \* history: keys evicted and not inserted again since
    twin,       \* history: _data of a twin cache on which the re-inserts of
                \* resident keys are not performed (every value is 0)
    lruSize,    \* capacity of _session_cache (lru.LRU)
    lru,        \* _session_cache: sequence of <<key, session>>, least recently
                \* used first
    sret,       \* the outcome of the last completed get_session / cache_session;
                \* history field sret.prior: the handle returned by the call
                \* just before, when that was get_session of the same key
    nextId,     \* the next session object to be constructed
    closeCalls, \* per session, the number of times its close() was called
    lock,       \* _async_session_cache_lock: 0 when free, else the holder
    running,    \* per thread, the coroutine that occupies it (0: none)
    co,         \* per coroutine: position and locals of its current call;
                \* raising tells whether the close() being awaited will
                \* raise; history fields: evicted (what cache() returned),
                \* closed (sessions whose close() this call awaited), prior
                \* (the handle returned by the call just before, when that
                \* was get_async_session of the same key and no other call
                \* was in flight then or has started since)
    result,     \* which async call completed last, and how it ended
    last,       \* history: key, returned handle and `prior` of the async call
                \* that completed last, kept while no coroutine is in flight
                \* (no other was when it completed, none has started since)
    hist,       \* history of the async cache: gone (keys evicted and not
                \* inserted again since), lost (sessions that the insert of a
                \* get_async_session call overwrote in place), handed
                \* (sessions get_async_session has returned to a caller)
    loop        \* per coroutine, the event-loop thread that runs it

cacheVars == <<ret, calls, distinct, seen, gone, twin>>
syncVars == <<lruSize, lru, sret>>
asyncVars == <<lock, running, co, result, last, hist, loop>>
vars == <<mode, size, data, ret, calls, distinct, seen, gone, twin,
          lruSize, lru, sret, nextId, closeCalls, lock, running, co, result, last,
          hist, loop>>

\* ------------------------------------------------- OrderedDict helpers
\* The keys of an OrderedDict, in iteration (insertion) order.
KeySeq(d) == [i \in 1..Len(d) |-> d[i][1]]

KeySet(d) == {d[i][1] : i \in 1..Len(d)}

\* `key in self._data`
Contains(d, key) == key \in KeySet(d)

\* `self._data[key]` for a resident key
Lookup(d, key) == d[CHOOSE i \in 1..Len(d) : d[i][1] = key][2]

\* Variant: a re-inserted key is moved to the end (promote on write).
SetItemMoveToEnd(d, key, value) ==
    Append(SelectSeq(d, LAMBDA e : e[1] # key), <<key, value>>)

\* Variant: a resident key keeps its old value.
SetItemKeepOld(d, key, value) ==
    IF key \in {d[i][1] : i \in 1..Len(d)} THEN d ELSE Append(d, <<key, value>>)

\* Variant: a new key is not stored.
SetItemNewDropped(d, key, value) ==
    IF key \in {d[i][1] : i \in 1..Len(d)}
    THEN [i \in 1..Len(d) |-> IF d[i][1] = key THEN <<key, value>> ELSE d[i]]
    ELSE d

\* `self._data[key] = value`: a resident key keeps its position, a new key
\* goes to the end.
SetItem(d, key, value) ==
    IF Contains(d, key)
    THEN [i \in 1..Len(d) |-> IF d[i][1] = key THEN <<key, value>> ELSE d[i]]
    ELSE Append(d, <<key, value>>)

\* Variant: the loop test is `>` instead of `>=`.
RECURSIVE EvictLoopOffByOne(_, _, _)
EvictLoopOffByOne(d, sz, ev) ==
    IF Len(d) > sz /\ Len(d) > 0
    THEN EvictLoopOffByOne(Tail(d), sz, Append(ev, Head(d)))
    ELSE [data |-> d, items |-> ev]

\* Variant: popitem(last=True), the newest entry is popped.
RECURSIVE EvictLoopNewest(_, _, _)
EvictLoopNewest(d, sz, ev) ==
    IF Len(d) >= sz /\ Len(d) > 0
    THEN EvictLoopNewest(SubSeq(d, 1, Len(d) - 1), sz, Append(ev, d[Len(d)]))
    ELSE [data |-> d, items |-> ev]

\* Variant: `if` instead of `while`, at most one entry is popped.
EvictLoopOnce(d, sz, ev) ==
    IF Len(d) >= sz /\ Len(d) > 0
    THEN [data |-> Tail(d), items |-> Append(ev, Head(d))]
    ELSE [data |-> d, items |-> ev]

\* The while loop of SessionCache.cache: popitem(last=False) while
\* len(self._data) >= self._size, collecting the popped items.
RECURSIVE EvictLoop(_, _, _)
EvictLoop(d, sz, ev) ==
    IF Len(d) >= sz /\ Len(d) > 0
    THEN EvictLoop(Tail(d), sz, Append(ev, Head(d)))
    ELSE [data |-> d, items |-> ev]

\* SessionCache.cache(key, value): the new _data and the returned
\* evicted_items (isNone when the loop body never ran).
cache(d, sz, key, value) ==
    IF ~Contains(d, key)
    THEN LET r == EvictLoop(d, sz, <<>>)
         IN  [data |-> SetItem(r.data, key, value),
              evicted |-> [isNone |-> r.items = <<>>, items |-> r.items]]
    ELSE [data |-> SetItem(d, key, value),
          evicted |-> [isNone |-> TRUE, items |-> <<>>]]

\* SessionCache.get_cache_entry(key): the value, or KeyError.
get_cache_entry(d, key) ==
    IF Contains(d, key)
    THEN [err |-> FALSE, val |-> Lookup(d, key)]
    ELSE [err |-> TRUE, val |-> 0]

\* SessionCache.__len__
len(d) == Len(d)

\* -------------------------------------------------------------- states
NoEviction == [isNone |-> TRUE, items |-> <<>>]

NoCall == [op |-> "none", key |-> 0, val |-> 0, err |-> FALSE,
           evicted |-> NoEviction, expect |-> 0, old |-> 0]

IdleCo == [pc |-> "idle", call |-> "none", key |-> 0, sess |-> 0,
           evicted |-> <<>>, evq |-> <<>>, closed |-> <<>>, raising |-> FALSE,
           prior |-> 0, afterEvict |-> FALSE]

NoResult == [call |-> "none", kind |-> "none"]

NoLast == [key |-> 0, val |-> 0, prior |-> 0]

NoHist == [gone |-> {}, lost |-> {}, handed |-> {}]

NoSync == [op |-> "none", key |-> 0, kind |-> "none", val |-> 0,
           built |-> FALSE, prior |-> 0]

\* The module-level state right after import: both caches empty (each of
\* the capacity explored), the lock free, no coroutine started.
SessionsIdle ==
    /\ lruSize = size
    /\ lru = <<>>
    /\ sret = NoSync
    /\ nextId = 1
    /\ closeCalls = [s \in Sessions |-> 0]
    /\ lock = 0
    /\ running = [t \in Threads |-> 0]
    /\ co = [p \in Procs |-> IdleCo]
    /\ result = NoResult
    /\ last = NoLast
    /\ hist = NoHist

InitCache ==
    /\ mode = "cache"
    /\ size \in Sizes
    /\ data = <<>>
    /\ ret = NoCall
    /\ calls = <<>>
    /\ distinct = TRUE
    /\ seen = {}
    /\ gone = {}
    /\ twin = <<>>
    /\ SessionsIdle
    /\ loop = [p \in Procs |-> ThreadOf(p)]

\* ------------------------------------------- SessionCache method calls
CacheCall(key, value) ==
    /\ mode = "cache"
    /\ LET r == cache(data, size, key, value)
       IN  /\ data' = r.data
           /\ gone' = (gone \cup KeySet(r.evicted.items)) \ {key}
           /\ ret' = [op |-> "cache", key |-> key, val |-> value, err |-> FALSE,
                      evicted |-> r.evicted, expect |-> 0,
                      old |-> IF Contains(data, key) THEN Lookup(data, key) ELSE 0]
    /\ distinct' = (distinct /\ \A i \in 1..Len(calls) : calls[i] # key)
    /\ calls' = IF distinct' THEN Append(calls, key) ELSE <<>>
    /\ seen' = seen \cup {key}
    /\ twin' = IF Contains(twin, key) THEN twin
               ELSE cache(twin, size, key, 0).data
    /\ UNCHANGED <<mode, size, syncVars, asyncVars, nextId, closeCalls>>

\* Variant: a successful lookup promotes the key (move_to_end on read).
GetCacheEntryCallPromote(key) ==
    /\ mode = "cache"
    /\ LET r == get_cache_entry(data, key)
       IN  /\ ret' = [op |-> "get", key |-> key, val |-> r.val, err |-> r.err,
                      evicted |-> NoEviction,
                      expect |-> IF ret.op = "cache" /\ ret.key = key
                                 THEN ret.val ELSE 0,
                   old |-> IF ret.op = "cache" /\ ret.key = key
                           THEN ret.old ELSE 0]
           /\ data' = IF r.err THEN data
                      ELSE Append(SelectSeq(data, LAMBDA e : e[1] # key),
                                  <<key, r.val>>)
    /\ UNCHANGED <<mode, size, calls, distinct, seen, gone, twin>>
    /\ UNCHANGED <<syncVars, asyncVars, nextId, closeCalls>>

GetCacheEntryCall(key) ==
    /\ mode = "cache"
    /\ LET r == get_cache_entry(data, key)
       IN  ret' = [op |-> "get", key |-> key, val |-> r.val, err |-> r.err,
                   evicted |-> NoEviction,
                   expect |-> IF ret.op = "cache" /\ ret.key = key
                              THEN ret.val ELSE 0,
                   old |-> IF ret.op = "cache" /\ ret.key = key
                           THEN ret.old ELSE 0]
    /\ UNCHANGED <<mode, size, data, calls, distinct, seen, gone, twin>>
    /\ UNCHANGED <<syncVars, asyncVars, nextId, closeCalls>>

ContainsCall(key) ==
    /\ mode = "cache"
    /\ ret' = [op |-> "contains", key |-> key,
               val |-> IF Contains(data, key) THEN 1 ELSE 0, err |-> FALSE,
               evicted |-> NoEviction, expect |-> 0, old |-> 0]
    /\ UNCHANGED <<mode, size, data, calls, distinct, seen, gone, twin>>
    /\ UNCHANGED <<syncVars, asyncVars, nextId, closeCalls>>

LenCall ==
    /\ mode = "cache"
    /\ ret' = [op |-> "len", key |-> 0, val |-> len(data), err |-> FALSE,
               evicted |-> NoEviction, expect |-> 0, old |-> 0]
    /\ UNCHANGED <<mode, size, data, calls, distinct, seen, gone, twin>>
    /\ UNCHANGED <<syncVars, asyncVars, nextId, closeCalls>>

NextCache ==
    \/ \E key \in Keys, value \in Values : CacheCall(key, value)
    \/ \E key \in Keys : GetCacheEntryCall(key)
    \/ \E key \in Keys : ContainsCall(key)
    \/ LenCall

SpecCache == InitCache /\ [][NextCache]_vars

\* The contents a SessionCache can hold when `_size` and `_data` are taken
\* as they are found: n entries with pairwise distinct keys, in any order.
Contents(n) ==
    {d \in [1..n -> Keys \X Values] :
        \A i, j \in 1..n : i # j => d[i][1] # d[j][1]}

\* A SessionCache of any capacity found with any contents, the ones with
\* len(self._data) > self._size included: the state the while loop of
\* cache() is written for.  The histories start from what is resident.
InitOver ==
    /\ mode = "cache"
    /\ size \in Sizes
    /\ data \in UNION {Contents(n) : n \in 0..NumKeys}
    /\ ret = NoCall
    /\ calls = <<>>
    /\ distinct = FALSE
    /\ seen = KeySet(data)
    /\ gone = {}
    /\ twin = [i \in 1..Len(data) |-> <<data[i][1], 0>>]
    /\ SessionsIdle
    /\ loop = [p \in Procs |-> ThreadOf(p)]

SpecOver == InitOver /\ [][NextCache]_vars

\* ------------------------------------------------ synchronous sessions
\* lru.LRU: `lru[key]` moves the entry to the most recently used end.
LruTouch(l, key) ==
    Append(SelectSeq(l, LAMBDA e : e[1] # key), <<key, Lookup(l, key)>>)

\* lru.LRU: `lru[key] = value`.  A resident key takes the value and becomes
\* the most recently used; a new key is added and, when the capacity is
\* exceeded, the least recently used entry is dropped and handed to the
\* callback.  Gives the new contents and the dropped entries.
LruSetItem(l, sz, key, value) ==
    IF Contains(l, key)
    THEN [lru |-> Append(SelectSeq(l, LAMBDA e : e[1] # key), <<key, value>>),
          dropped |-> <<>>]
    ELSE IF Len(l) + 1 > sz
         THEN [lru |-> Append(Tail(l), <<key, value>>), dropped |-> <<Head(l)>>]
         ELSE [lru |-> Append(l, <<key, value>>), dropped |-> <<>>]

\* Variant: the callback does not close the session.
RemoveSessionsNoClose(cc, dropped) == cc

\* _remove_session, applied to the entries the LRU dropped: session.close().
RemoveSessions(cc, dropped) ==
    [s \in DOMAIN cc |->
        cc[s] + Cardinality({i \in 1..Len(dropped) : dropped[i][2] = s})]

InitSync ==
    /\ mode = "sync"
    /\ size \in Sizes
    /\ data = <<>>
    /\ ret = NoCall
    /\ calls = <<>>
    /\ distinct = TRUE
    /\ seen = {}
    /\ gone = {}
    /\ twin = <<>>
    /\ SessionsIdle
    /\ loop = [p \in Procs |-> ThreadOf(p)]

SyncPrior(key) ==
    IF sret.op = "get_session" /\ sret.kind = "ok" /\ sret.key = key
    THEN sret.val ELSE 0

\* Variant: no containment test, a session is built on every call.
GetSessionAlwaysBuilds(key) ==
    /\ mode = "sync"
    /\ nextId \in DOMAIN closeCalls
    /\ LET r == LruSetItem(lru, lruSize, key, nextId)
       IN  /\ lru' = LruTouch(r.lru, key)
           /\ closeCalls' = RemoveSessions(closeCalls, r.dropped)
           /\ sret' = [op |-> "get_session", key |-> key, kind |-> "ok",
                       val |-> Lookup(r.lru, key), built |-> TRUE,
                       prior |-> SyncPrior(key)]
    /\ nextId' = nextId + 1
    /\ UNCHANGED <<mode, size, data, cacheVars, lruSize, asyncVars>>

\* get_session(endpoint_uri), requests.Session() succeeding on a miss.
GetSession(key) ==
    /\ mode = "sync"
    /\ IF ~Contains(lru, key)
       THEN /\ nextId \in DOMAIN closeCalls
            /\ LET r == LruSetItem(lru, lruSize, key, nextId)
               IN  /\ lru' = LruTouch(r.lru, key)
                   /\ closeCalls' = RemoveSessions(closeCalls, r.dropped)
                   /\ sret' = [op |-> "get_session", key |-> key, kind |-> "ok",
                               val |-> Lookup(r.lru, key), built |-> TRUE,
                               prior |-> SyncPrior(key)]
            /\ nextId' = nextId + 1
       ELSE /\ lru' = LruTouch(lru, key)
            /\ sret' = [op |-> "get_session", key |-> key, kind |-> "ok",
                        val |-> Lookup(lru, key), built |-> FALSE,
                        prior |-> SyncPrior(key)]
            /\ UNCHANGED <<nextId, closeCalls>>
    /\ UNCHANGED <<mode, size, data, cacheVars, lruSize, asyncVars>>

\* get_session(endpoint_uri) on a miss, requests.Session() raising.
GetSessionFail(key) ==
    /\ mode = "sync"
    /\ ~Contains(lru, key)
    /\ sret' = [op |-> "get_session", key |-> key, kind |-> "ConstructError",
                val |-> 0, built |-> FALSE, prior |-> 0]
    /\ UNCHANGED <<mode, size, data, cacheVars, lruSize, lru, nextId,
                   closeCalls, asyncVars>>

\* cache_session(endpoint_uri, session) with a session the caller built.
CacheSession(key) ==
    /\ mode = "sync"
    /\ nextId \in DOMAIN closeCalls
    /\ LET r == LruSetItem(lru, lruSize, key, nextId)
       IN  /\ lru' = r.lru
           /\ closeCalls' = RemoveSessions(closeCalls, r.dropped)
    /\ sret' = [op |-> "cache_session", key |-> key, kind |-> "ok",
                val |-> nextId, built |-> TRUE, prior |-> 0]
    /\ nextId' = nextId + 1
    /\ UNCHANGED <<mode, size, data, cacheVars, lruSize, asyncVars>>

NextSync ==
    \/ \E key \in Keys : GetSession(key)
    \/ \E key \in Keys : GetSessionFail(key)
    \/ \E key \in Keys : CacheSession(key)

\* ----------------------------------------------- asynchronous sessions
InitAsync ==
    /\ mode = "async"
    /\ size \in Sizes
    /\ data = <<>>
    /\ ret = NoCall
    /\ calls = <<>>
    /\ distinct = TRUE
    /\ seen = {}
    /\ gone = {}
    /\ twin = <<>>
    /\ SessionsIdle
    /\ loop = [p \in Procs |-> ThreadOf(p)]

\* All the coroutines are tasks of one event loop, on thread 1.
InitOneLoop ==
    /\ mode = "async"
    /\ size \in Sizes
    /\ data = <<>>
    /\ ret = NoCall
    /\ calls = <<>>
    /\ distinct = TRUE
    /\ seen = {}
    /\ gone = {}
    /\ twin = <<>>
    /\ SessionsIdle
    /\ loop = [p \in Procs |-> 1]

Thread(p) == loop[p]

OthersIdle(p) == \A q \in Procs \ {p} : co[q].pc = "idle"

\* A call starting while others are in flight overlaps them: none of them is
\* then the second of two calls made one after the other.
Overlap(c, p) ==
    [q \in Procs |-> IF q # p /\ c[q].pc # "idle"
                     THEN [c[q] EXCEPT !.prior = 0] ELSE c[q]]

\* A coroutine returns or raises.
Finish(p, call, key, kind, val) ==
    /\ co' = [co EXCEPT ![p] = IdleCo]
    /\ result' = [call |-> call, kind |-> kind]
    /\ last' = IF OthersIdle(p)
               THEN [key |-> key, val |-> val, prior |-> co[p].prior]
               ELSE NoLast

\* get_async_session(endpoint_uri), line 124: the containment test.
StartGet(p, key) ==
    /\ mode = "async"
    /\ UNCHANGED <<hist, loop>>
    /\ co[p].pc = "idle"
    /\ running[Thread(p)] = 0
    /\ running' = [running EXCEPT ![Thread(p)] = p]
    /\ co' = [Overlap(co, p) EXCEPT ![p] =
                [IdleCo EXCEPT !.pc = IF Contains(data, key)
                                      THEN "lookup" ELSE "construct",
                               !.call = "get",
                               !.key = key,
                               !.afterEvict = key \in hist.gone,
                               !.prior = IF /\ result.call = "get"
                                            /\ result.kind = "ok"
                                            /\ last.key = key
                                         THEN last.val ELSE 0]]
    /\ last' = NoLast
    /\ UNCHANGED <<mode, size, data, cacheVars, syncVars, nextId, closeCalls,
                   lock, result>>

\* line 125: ClientSession(raise_for_status=True) succeeds.
Construct(p) ==
    /\ mode = "async"
    /\ UNCHANGED <<hist, loop>>
    /\ co[p].pc = "construct"
    /\ running[Thread(p)] = p
    /\ nextId <= MaxSessions
    /\ co' = [co EXCEPT ![p].pc = "acquire", ![p].sess = nextId]
    /\ nextId' = nextId + 1
    /\ UNCHANGED <<mode, size, data, cacheVars, syncVars, closeCalls, lock,
                   running, result, last>>

\* Variant: the key is entered in the cache before the session is built,
\* and stays there when the constructor raises.
ConstructFailPartial(p) ==
    /\ mode = "async"
    /\ UNCHANGED <<hist, loop>>
    /\ co[p].pc = "construct"
    /\ running[Thread(p)] = p
    /\ Finish(p, co[p].call, co[p].key, "ConstructError", 0)
    /\ running' = [running EXCEPT ![Thread(p)] = 0]
    /\ data' = cache(data, size, co[p].key, 0).data
    /\ UNCHANGED <<mode, size, cacheVars, syncVars, nextId, closeCalls,
                   lock>>

\* line 125: ClientSession(raise_for_status=True) raises.
ConstructFail(p) ==
    /\ mode = "async"
    /\ UNCHANGED <<hist, loop>>
    /\ co[p].pc = "construct"
    /\ running[Thread(p)] = p
    /\ Finish(p, co[p].call, co[p].key, "ConstructError", 0)
    /\ running' = [running EXCEPT ![Thread(p)] = 0]
    /\ UNCHANGED <<mode, size, data, cacheVars, syncVars, nextId, closeCalls,
                   lock>>

\* cache_async_session(endpoint_uri, session) called directly with a
\* session the caller has just built.
StartCache(p, key) ==
    /\ mode = "async"
    /\ UNCHANGED <<hist, loop>>
    /\ co[p].pc = "idle"
    /\ running[Thread(p)] = 0
    /\ nextId <= MaxSessions
    /\ running' = [running EXCEPT ![Thread(p)] = p]
    /\ co' = [Overlap(co, p) EXCEPT ![p] =
                [IdleCo EXCEPT !.pc = "acquire", !.call = "cache",
                               !.key = key, !.sess = nextId]]
    /\ nextId' = nextId + 1
    /\ last' = NoLast
    /\ UNCHANGED <<mode, size, data, cacheVars, syncVars, closeCalls, lock,
                   result>>

\* Variant: the with block is entered without waiting for the lock.
AcquireNoWait(p) ==
    /\ mode = "async"
    /\ UNCHANGED <<hist, loop>>
    /\ co[p].pc = "acquire"
    /\ running[Thread(p)] = p
    /\ lock' = p
    /\ co' = [co EXCEPT ![p].pc = "cache"]
    /\ UNCHANGED <<mode, size, data, cacheVars, syncVars, nextId, closeCalls,
                   running, result, last>>

\* line 115: `with _async_session_cache_lock:` is entered.  threading.Lock
\* blocks the thread, so the coroutine keeps its thread while it waits.
Acquire(p) ==
    /\ mode = "async"
    /\ UNCHANGED <<hist, loop>>
    /\ co[p].pc = "acquire"
    /\ running[Thread(p)] = p
    /\ lock = 0
    /\ lock' = p
    /\ co' = [co EXCEPT ![p].pc = "cache"]
    /\ UNCHANGED <<mode, size, data, cacheVars, syncVars, nextId, closeCalls,
                   running, result, last>>

\* Variant: the evicted entries are handed to the caller but leave the
\* structure only later; a reader still finds them.
DoCacheLazy(p) ==
    /\ mode = "async"
    /\ co[p].pc = "cache"
    /\ running[Thread(p)] = p
    /\ LET r == cache(data, size, co[p].key, co[p].sess)
       IN  /\ data' = r.evicted.items \o r.data
           /\ hist' = [hist EXCEPT
                 !.gone = (@ \cup KeySet(r.evicted.items)) \ {co[p].key},
                 !.lost = IF co[p].call = "get" /\ Contains(data, co[p].key)
                          THEN @ \cup {Lookup(data, co[p].key)} ELSE @]
           /\ UNCHANGED loop
           /\ co' = [co EXCEPT ![p].pc = IF r.evicted.isNone
                                         THEN "release" ELSE "close",
                               ![p].evicted = r.evicted.items,
                               ![p].evq = r.evicted.items]
    /\ UNCHANGED <<mode, size, cacheVars, syncVars, nextId, closeCalls, lock,
                   running, result, last>>

\* Variant: the entry an insert overwrites is returned with the evicted
\* ones, and so closed.
DoCacheOverwrittenEvicted(p) ==
    /\ mode = "async"
    /\ co[p].pc = "cache"
    /\ running[Thread(p)] = p
    /\ LET r == cache(data, size, co[p].key, co[p].sess)
           ev == IF Contains(data, co[p].key)
                 THEN <<<<co[p].key, Lookup(data, co[p].key)>>>>
                 ELSE r.evicted.items
       IN  /\ data' = r.data
           /\ hist' = [hist EXCEPT
                 !.gone = (@ \cup KeySet(r.evicted.items)) \ {co[p].key},
                 !.lost = IF co[p].call = "get" /\ Contains(data, co[p].key)
                          THEN @ \cup {Lookup(data, co[p].key)} ELSE @]
           /\ UNCHANGED loop
           /\ co' = [co EXCEPT ![p].pc = IF ev = <<>>
                                         THEN "release" ELSE "close",
                               ![p].evicted = ev,
                               ![p].evq = ev]
    /\ UNCHANGED <<mode, size, cacheVars, syncVars, nextId, closeCalls, lock,
                   running, result, last>>

\* lines 116-118: the structural insert, and the evicted items to close.
DoCache(p) ==
    /\ mode = "async"
    /\ co[p].pc = "cache"
    /\ running[Thread(p)] = p
    /\ LET r == cache(data, size, co[p].key, co[p].sess)
       IN  /\ data' = r.data
           /\ hist' = [hist EXCEPT
                 !.gone = (@ \cup KeySet(r.evicted.items)) \ {co[p].key},
                 !.lost = IF co[p].call = "get" /\ Contains(data, co[p].key)
                          THEN @ \cup {Lookup(data, co[p].key)} ELSE @]
           /\ UNCHANGED loop
           /\ co' = [co EXCEPT ![p].pc = IF r.evicted.isNone
                                         THEN "release" ELSE "close",
                               ![p].evicted = r.evicted.items,
                               ![p].evq = r.evicted.items]
    /\ UNCHANGED <<mode, size, cacheVars, syncVars, nextId, closeCalls, lock,
                   running, result, last>>

\* Variant: the loop variable does not shadow the parameter, close() is
\* called on the session being cached.
CloseStartOnNewSession(p) ==
    /\ mode = "async"
    /\ UNCHANGED <<hist, loop>>
    /\ co[p].pc = "close"
    /\ running[Thread(p)] = p
    /\ LET s == co[p].sess
       IN  /\ closeCalls' = [closeCalls EXCEPT ![s] = @ + 1]
           /\ \E raises \in BOOLEAN :
                 co' = [co EXCEPT ![p].pc = "closing",
                                  ![p].raising = raises,
                                  ![p].closed = Append(@, s)]
    /\ running' = [running EXCEPT ![Thread(p)] = 0]
    /\ UNCHANGED <<mode, size, data, cacheVars, syncVars, nextId, lock,
                   result, last>>

\* line 119: `await session.close()` is entered for the next evicted
\* session; the coroutine is suspended and yields its thread.  Whether
\* the close will raise is the session's business.
CloseStart(p) ==
    /\ mode = "async"
    /\ UNCHANGED <<hist, loop>>
    /\ co[p].pc = "close"
    /\ running[Thread(p)] = p
    /\ LET s == Head(co[p].evq)[2]
       IN  /\ closeCalls' = [closeCalls EXCEPT ![s] = @ + 1]
           /\ \E raises \in BOOLEAN :
                 co' = [co EXCEPT ![p].pc = "closing",
                                  ![p].raising = raises,
                                  ![p].closed = Append(@, s)]
    /\ running' = [running EXCEPT ![Thread(p)] = 0]
    /\ UNCHANGED <<mode, size, data, cacheVars, syncVars, nextId, lock,
                   result, last>>

\* line 119: the close completes and the coroutine is resumed; the loop
\* goes on to the next evicted session.
CloseDone(p) ==
    /\ mode = "async"
    /\ UNCHANGED <<hist, loop>>
    /\ co[p].pc = "closing"
    /\ ~co[p].raising
    /\ running[Thread(p)] = 0
    /\ running' = [running EXCEPT ![Thread(p)] = p]
    /\ co' = [co EXCEPT ![p].evq = Tail(@),
                        ![p].pc = IF Tail(co[p].evq) = <<>>
                                  THEN "release" ELSE "close"]
    /\ UNCHANGED <<mode, size, data, cacheVars, syncVars, nextId, closeCalls,
                   lock, result, last>>

\* Variant: the exception of a close is caught and the loop goes on.
CloseFailSwallowed(p) ==
    /\ mode = "async"
    /\ UNCHANGED <<hist, loop>>
    /\ co[p].pc = "closing"
    /\ co[p].raising
    /\ running[Thread(p)] = 0
    /\ running' = [running EXCEPT ![Thread(p)] = p]
    /\ co' = [co EXCEPT ![p].evq = Tail(@),
                        ![p].raising = FALSE,
                        ![p].pc = IF Tail(co[p].evq) = <<>>
                                  THEN "release" ELSE "close"]
    /\ UNCHANGED <<mode, size, data, cacheVars, syncVars, nextId, closeCalls,
                   lock, result, last>>

\* line 119: the close raises.  Nothing catches it: the with block releases
\* the lock and the exception leaves cache_async_session, and
\* get_async_session when that was the caller.
CloseFail(p) ==
    /\ mode = "async"
    /\ UNCHANGED <<hist, loop>>
    /\ co[p].pc = "closing"
    /\ co[p].raising
    /\ running[Thread(p)] = 0
    /\ lock' = 0
    /\ Finish(p, co[p].call, co[p].key, "CloseError", 0)
    /\ UNCHANGED <<mode, size, data, cacheVars, syncVars, nextId, closeCalls,
                   running>>

\* The with block is left and cache_async_session returns None.
Release(p) ==
    /\ mode = "async"
    /\ UNCHANGED <<hist, loop>>
    /\ co[p].pc = "release"
    /\ running[Thread(p)] = p
    /\ lock' = 0
    /\ IF co[p].call = "cache"
       THEN /\ Finish(p, "cache", co[p].key, "ok", 0)
            /\ running' = [running EXCEPT ![Thread(p)] = 0]
       ELSE /\ co' = [co EXCEPT ![p].pc = "lookup"]
            /\ UNCHANGED <<running, result, last>>
    /\ UNCHANGED <<mode, size, data, cacheVars, syncVars, nextId, closeCalls>>

\* line 126: return _async_session_cache.get_cache_entry(cache_key).
GetEntry(p) ==
    /\ mode = "async"
    /\ co[p].pc = "lookup"
    /\ running[Thread(p)] = p
    /\ LET r == get_cache_entry(data, co[p].key)
       IN  /\ Finish(p, "get", co[p].key,
                     IF r.err THEN "KeyError" ELSE "ok", r.val)
           /\ hist' = IF r.err THEN hist
                      ELSE [hist EXCEPT !.handed = @ \cup {r.val}]
           /\ UNCHANGED loop
    /\ running' = [running EXCEPT ![Thread(p)] = 0]
    /\ UNCHANGED <<mode, size, data, cacheVars, syncVars, nextId, closeCalls,
                   lock>>

NextAsync ==
    \/ \E p \in Procs, key \in Keys : StartGet(p, key)
    \/ \E p \in Procs : Construct(p)
    \/ \E p \in Procs : ConstructFail(p)
    \/ \E p \in Procs, key \in Keys : StartCache(p, key)
    \/ \E p \in Procs : Acquire(p)
    \/ \E p \in Procs : DoCache(p)
    \/ \E p \in Procs : CloseStart(p)
    \/ \E p \in Procs : CloseDone(p)
    \/ \E p \in Procs : CloseFail(p)
    \/ \E p \in Procs : Release(p)
    \/ \E p \in Procs : GetEntry(p)

SpecSync == InitSync /\ [][NextSync]_vars

\* _session_cache as the module builds it: lru.LRU(8, ...), empty.
InitLru8 ==
    /\ mode = "sync"
    /\ size = 1
    /\ data = <<>>
    /\ ret = NoCall
    /\ calls = <<>>
    /\ distinct = TRUE
    /\ seen = {}
    /\ gone = {}
    /\ twin = <<>>
    /\ lruSize = LruCapacity
    /\ lru = <<>>
    /\ sret = NoSync
    /\ nextId = 1
    /\ closeCalls = [s \in LruSessions |-> 0]
    /\ lock = 0
    /\ running = [t \in Threads |-> 0]
    /\ co = [p \in Procs |-> IdleCo]
    /\ result = NoResult
    /\ last = NoLast
    /\ hist = NoHist
    /\ loop = [p \in Procs |-> ThreadOf(p)]

\* get_session on the cache of capacity 8, with enough endpoints to
\* overflow it.  The cache treats endpoint URIs as opaque: an endpoint that
\* is not resident while the cache is filling up is given the next unused
\* name.  The calls go on until the last session object has been built.
NextLru8 ==
    /\ lruSize = LruCapacity
    /\ nextId <= MaxLruSessions
    /\ \E key \in LruKeys :
          /\ key <= Len(lru) + 1
          /\ GetSession(key)

\* The synchronous cache at the small capacities, under every call, and
\* at its own capacity under get_session.
SpecLru8 ==
    (InitSync \/ InitLru8)
        /\ [][(lruSize < LruCapacity /\ NextSync) \/ NextLru8]_vars

SpecAsync == InitAsync /\ [][NextAsync]_vars

SpecOneLoop == InitOneLoop /\ [][NextAsync]_vars

\* Either kind of session provisioning.
SpecSessions == (InitSync \/ InitAsync) /\ [][NextSync \/ NextAsync]_vars

\* ---------------------------------------------------------- properties
\* The last k elements of a sequence.
LastN(s, k) == SubSeq(s, Len(s) - k + 1, Len(s))

Range(s) == {s[i] : i \in 1..Len(s)}

\* C1: starting empty with capacity N >= 1, after every completed call of
\* cache(key, value), in any sequence of cache / get_cache_entry / contains
\* / len calls, the number of resident entries is at most N.
C1_SizeAtMostCapacity ==
    mode = "cache" => (size >= 1 /\ len(data) <= size)

\* C1 witness: a cache() call on a full cache has just completed and evicted.
C1_Witness ==
    /\ mode = "cache"
    /\ ret.op = "cache"
    /\ ~ret.evicted.isNone
    /\ len(data) = size

\* C2: after a sequence of cache() calls with pairwise distinct keys that is
\* longer than the capacity N, len(cache) = N and the resident keys are
\* exactly the N most recently inserted keys.
C2_DistinctInsertsKeepNewest ==
    (mode = "cache" /\ distinct /\ Len(calls) > size) =>
        /\ len(data) = size
        /\ KeySet(data) = Range(LastN(calls, size))
        /\ Cardinality(KeySet(data)) = size

\* C2 witness: more distinct keys than the capacity have been inserted.
C2_Witness ==
    /\ mode = "cache"
    /\ distinct
    /\ Len(calls) > size
    /\ ret.op = "cache"
    /\ size >= 2

\* C3: cache(key, value) on a resident key leaves len(cache) unchanged,
\* evicts nothing (returns None, also when the cache is full) and leaves the
\* order of the keys unchanged; the key order, hence what later inserts of
\* new keys evict, always equals that of the twin cache on which the
\* re-inserts were never performed.
C3_ReinsertKeepsOrder ==
    [][ mode = "cache" =>
          /\ KeySeq(data') = KeySeq(twin')
          /\ \A k \in Keys \ KeySet(data') :
                KeySeq(cache(data', size', k, 1).evicted.items)
                    = KeySeq(cache(twin', size', k, 1).evicted.items)
          /\ (ret'.op = "cache" /\ Contains(data, ret'.key)) =>
                /\ len(data') = len(data)
                /\ ret'.evicted.isNone
                /\ ret'.evicted.items = <<>>
                /\ KeySeq(data') = KeySeq(data)
      ]_vars

\* C3 witness: the last call re-inserted, with another value, a key of a
\* full cache that holds at least two entries and is not the newest.
C3_Witness ==
    /\ mode = "cache"
    /\ ret.op = "cache"
    /\ len(data) = size
    /\ size >= 2
    /\ ret.old # 0
    /\ ret.old # ret.val
    /\ data[Len(data)][1] # ret.key

\* C4: get_cache_entry(key) right after cache(key, value) returns that value
\* (also when the key was resident with another value); get_cache_entry on a
\* key never inserted, or evicted and not inserted again, fails with
\* KeyError and leaves the cache unchanged.
C4_GetAfterCache ==
    [][ (mode = "cache" /\ ret'.op = "get") =>
          /\ (ret.op = "cache" /\ ret.key = ret'.key) =>
                (~ret'.err /\ ret'.val = ret.val /\ ret'.expect = ret.val)
          /\ (ret'.key \notin seen \/ ret'.key \in gone) =>
                (ret'.err /\ data' = data /\ size' = size)
      ]_vars

\* C4 witness: a lookup right after the re-insert of a resident key with a
\* value other than the one first stored returned the new value.
C4_Witness ==
    /\ mode = "cache"
    /\ ret.op = "get"
    /\ ret.expect # 0
    /\ ~ret.err
    /\ ret.val = ret.expect
    /\ ret.old # 0
    /\ ret.old # ret.val

\* C5: inserting a new key into a full cache evicts exactly the oldest entry
\* and returns a mapping holding exactly that pair; inserting a new key
\* below capacity evicts nothing and returns None.  With capacity 2,
\* cache(A), cache(B), cache(C) returns {A} and leaves B, C.
C5_EvictOldestOnly ==
    [][ (mode = "cache" /\ ret'.op = "cache" /\ ~Contains(data, ret'.key)) =>
          /\ len(data) = size =>
                /\ ret'.evicted = [isNone |-> FALSE, items |-> <<Head(data)>>]
                /\ data' = Append(Tail(data), <<ret'.key, ret'.val>>)
          /\ len(data) < size =>
                /\ ret'.evicted = [isNone |-> TRUE, items |-> <<>>]
                /\ data' = Append(data, <<ret'.key, ret'.val>>)
          /\ (size = 2 /\ distinct' /\ Len(calls') = 3) =>
                /\ KeySeq(ret'.evicted.items) = <<calls'[1]>>
                /\ KeySeq(data') = <<calls'[2], calls'[3]>>
      ]_vars

\* C5 witness: capacity 2, keys 1, 2, 3 inserted in that order, key 1 evicted.
C5_Witness ==
    /\ mode = "cache"
    /\ size = 2
    /\ distinct
    /\ calls = <<1, 2, 3>>
    /\ ret.op = "cache"
    /\ KeySeq(ret.evicted.items) = <<1>>
    /\ KeySeq(data) = <<2, 3>>

\* C6: get_cache_entry, the containment test and len leave the resident
\* entries, their values and their order unchanged: a successful lookup
\* never promotes the key.
C6_ReadsAreReadOnly ==
    [][ (mode = "cache" /\ ret'.op \in {"get", "contains", "len"}) =>
          /\ data' = data
          /\ size' = size
          /\ \A k \in Keys :
                cache(data', size', k, 1).evicted = cache(data, size, k, 1).evicted
      ]_vars

\* C6 witness: the oldest key of a full cache of at least two entries has
\* just been looked up successfully and is still the oldest.
C6_Witness ==
    /\ mode = "cache"
    /\ ret.op = "get"
    /\ ~ret.err
    /\ size >= 2
    /\ len(data) = size
    /\ data[1][1] = ret.key

\* The sessions of a sequence of <<key, session>> items.
ValSeq(d) == [i \in 1..Len(d) |-> d[i][2]]

\* C7: when a call of cache_async_session evicts and every close succeeds,
\* then at its return the close of each evicted session has been awaited
\* exactly once, by this call and overall, and of no other session; the
\* evicted keys are not contained, the new key is, and
\* get_cache_entry(new key) is the session passed in.
C7_EvictedClosedOnce ==
    [][ \A p \in Procs :
          (mode = "async" /\ co[p].pc = "release" /\ co'[p].pc # "release"
             /\ co[p].evicted # <<>>) =>
            /\ co[p].closed = ValSeq(co[p].evicted)
            /\ \A i \in 1..Len(co[p].evicted) :
                  /\ closeCalls'[co[p].evicted[i][2]] = 1
                  /\ ~Contains(data', co[p].evicted[i][1])
            /\ Contains(data', co[p].key)
            /\ get_cache_entry(data', co[p].key)
                  = [err |-> FALSE, val |-> co[p].sess]
            /\ size = 1 => Len(co[p].evicted) = 1
      ]_vars

\* C7 witness: capacity 1; session 1 was cached under key 1, then
\* cache_async_session(key 2, session 2) returned: session 1 closed once,
\* key 1 absent, key 2 maps to session 2.
C7_Witness ==
    /\ mode = "async"
    /\ size = 1
    /\ result.call = "cache" /\ result.kind = "ok" /\ last.key = 2
    /\ \A p \in Procs : co[p].pc = "idle"
    /\ nextId = 3
    /\ closeCalls[1] = 1 /\ closeCalls[2] = 0
    /\ ~Contains(data, 1)
    /\ Contains(data, 2)
    /\ get_cache_entry(data, 2) = [err |-> FALSE, val |-> 2]

\* C8: of two calls of get_session (get_async_session) for the same
\* endpoint made one after the other, with no other call in between, the
\* second returns the handle the first returned, builds no session and
\* leaves the cache unchanged.
C8_SecondCallSameHandle ==
    [][ /\ (mode = "sync" /\ sret.op = "get_session" /\ sret.kind = "ok"
              /\ sret'.op = "get_session" /\ sret'.key = sret.key) =>
             /\ sret'.kind = "ok"
             /\ sret'.val = sret.val
             /\ ~sret'.built
             /\ lru' = lru
             /\ nextId' = nextId
             /\ closeCalls' = closeCalls
        /\ \A p \in Procs : mode = "async" =>
             /\ co'[p].prior # 0 => co'[p].pc = "lookup"
             /\ (co[p].pc = "idle" /\ co'[p].prior # 0) =>
                   /\ data' = data
                   /\ nextId' = nextId
                   /\ closeCalls' = closeCalls
             /\ (co[p].prior # 0 /\ co'[p].pc = "idle") =>
                   /\ result' = [call |-> "get", kind |-> "ok"]
                   /\ last' = [key |-> co[p].key, val |-> co[p].prior,
                               prior |-> co[p].prior]
                   /\ data' = data
                   /\ nextId' = nextId
                   /\ closeCalls' = closeCalls
      ]_vars

\* C8 witness: get_async_session has returned, from a full cache, the
\* handle returned by the call of the same key made just before it.
C8_Witness ==
    /\ mode = "async"
    /\ result.call = "get"
    /\ result.kind = "ok"
    /\ last.prior # 0
    /\ last.val = last.prior
    /\ len(data) = size
    /\ nextId > size + 1

\* C9: when the close of an evicted session raises inside
\* cache_async_session, the call ends with that failure (also for
\* get_async_session, which returns no handle), and then the evicted entries
\* are removed, the new entry is resident under its key and the size is at
\* most the capacity.
C9_CloseFailurePropagates ==
    [][ \A p \in Procs :
          (mode = "async" /\ co[p].pc = "closing" /\ co[p].raising
             /\ co'[p].pc # "closing") =>
            /\ co'[p].pc = "idle"
            /\ result' = [call |-> co[p].call, kind |-> "CloseError"]
            /\ \A i \in 1..Len(co[p].evicted) :
                  ~Contains(data', co[p].evicted[i][1])
            /\ Contains(data', co[p].key)
            /\ get_cache_entry(data', co[p].key)
                  = [err |-> FALSE, val |-> co[p].sess]
            /\ len(data') <= size
      ]_vars

\* C9 witness: a get_async_session call ended with the failure of a close;
\* its key is resident in the full cache.
C9_Witness ==
    /\ mode = "async"
    /\ result.kind = "CloseError"
    /\ result.call = "get"
    /\ last.key # 0
    /\ \A p \in Procs : co[p].pc = "idle"
    /\ Contains(data, last.key)
    /\ len(data) = size
    /\ lock = 0

\* C10: when building the session fails on a miss in get_session or
\* get_async_session, the call ends with that failure and the cache is as
\* before the call: no entry inserted, none evicted, no session closed.
C10_ConstructFailureNoChange ==
    [][ /\ (mode = "sync" /\ sret'.kind = "ConstructError") =>
             /\ lru' = lru
             /\ ~Contains(lru', sret'.key)
             /\ closeCalls' = closeCalls
             /\ nextId' = nextId
        /\ \A p \in Procs : mode = "async" =>
             /\ (co[p].pc = "idle" /\ co'[p].pc = "construct") =>
                   /\ data' = data
                   /\ closeCalls' = closeCalls
                   /\ lock' = lock
             /\ (co[p].pc = "construct" /\ co'[p].pc = "idle") =>
                   /\ result'.call = "get"
                   /\ result'.kind = "ConstructError"
                   /\ data' = data
                   /\ closeCalls' = closeCalls
                   /\ nextId' = nextId
                   /\ lock' = lock
      ]_vars

\* C10 witness: get_session failed to build a session for a key missing from
\* the full cache; the key is still missing and the cache still full.
C10_Witness ==
    /\ mode = "sync"
    /\ sret.kind = "ConstructError"
    /\ ~Contains(lru, sret.key)
    /\ len(lru) = lruSize
    /\ \A s \in Sessions : closeCalls[s] = 0

\* C18: when a new key is inserted into a SessionCache holding s >= N
\* entries (s > N included), cache() pops the oldest entries, oldest first,
\* until fewer than N are left and then inserts the key: exactly the
\* s - N + 1 oldest entries are evicted and returned, in order, more than
\* one when s > N, and the resulting size is exactly N.
C18_EvictDownToCapacity ==
    [][ (mode = "cache" /\ ret'.op = "cache" /\ ~Contains(data, ret'.key)
         /\ len(data) >= size) =>
          /\ ~ret'.evicted.isNone
          /\ ret'.evicted.items = SubSeq(data, 1, len(data) - size + 1)
          /\ Len(ret'.evicted.items) = len(data) - size + 1
          /\ (len(data) > size => Len(ret'.evicted.items) > 1)
          /\ data' = Append(SubSeq(data, len(data) - size + 2, len(data)),
                            <<ret'.key, ret'.val>>)
          /\ len(data') = size
      ]_vars

\* C18 witness: a cache() call has just evicted more than one entry and
\* left the cache exactly full.
C18_Witness ==
    /\ mode = "cache"
    /\ ret.op = "cache"
    /\ Len(ret.evicted.items) >= 2
    /\ len(data) = size
    /\ data[Len(data)] = <<ret.key, ret.val>>

\* C19: in every state reached from an empty SessionCache of capacity
\* N >= 1 through cache() calls (new keys and re-inserts in any order) the
\* size is at most N, so no call finds more than N entries: the loop pops
\* at most once per call and the returned mapping has at most one pair.
C19_AtMostOneEvicted ==
    mode = "cache" =>
        /\ len(data) <= size
        /\ len(data) - size + 1 <= 1
        /\ Len(ret.evicted.items) <= 1
        /\ (ret.op = "cache" /\ ~ret.evicted.isNone) =>
              Len(ret.evicted.items) = 1

\* C19 witness: after new keys and a re-insert, a cache() call on a full
\* cache has evicted exactly one entry.
C19_Witness ==
    /\ mode = "cache"
    /\ ~distinct
    /\ Cardinality(seen) > size
    /\ ret.op = "cache"
    /\ Len(ret.evicted.items) = 1
    /\ len(data) = size

\* C11: once SessionCache.cache, called by cache_async_session, has
\* returned with key k evicted, k is not in the structure until it is
\* inserted again: a containment test of a concurrent get_async_session
\* on k misses, and its get_cache_entry on k raises KeyError.
C11_EvictionLinearizable ==
    [][ mode = "async" =>
          /\ hist'.gone \cap KeySet(data') = {}
          /\ \A p \in Procs :
                /\ (co[p].pc = "idle" /\ co'[p].call = "get"
                      /\ co'[p].key \in hist.gone)
                        => co'[p].pc = "construct"
                /\ (co[p].pc = "lookup" /\ co'[p].pc = "idle"
                      /\ co[p].key \in hist.gone)
                        => result'.kind = "KeyError"
      ]_vars

\* C11 witness: one caller is still closing the session evicted with key
\* k while another, whose containment test came after the eviction, has
\* missed on k and is building a new session for it.
C11_Witness ==
    /\ mode = "async"
    /\ \E p, q \in Procs :
          /\ p # q
          /\ co[p].pc \in {"close", "closing"}
          /\ co[q].call = "get"
          /\ co[q].pc = "construct"
          /\ co[q].afterEvict
          /\ co[q].key \in KeySet(co[p].evicted)
          /\ ~Contains(data, co[q].key)

\* C13: _async_session_cache_lock is held only for the synchronous
\* structural mutation; no coroutine is suspended in `await
\* session.close()` of an evicted session while it holds the lock.
C13_NoAwaitUnderLock ==
    mode = "async" =>
        \A p \in Procs : co[p].pc = "closing" => lock # p

\* C14: every call of cache_async_session and get_async_session returns,
\* also with several coroutines on one event-loop thread: no state has a
\* caller blocked in the acquire of _async_session_cache_lock, and with it
\* the thread it runs on, while the lock holder is a coroutine of that
\* same thread suspended in the close of an evicted session, which only
\* that thread can resume.
C14_NoCallerBlockedForever ==
    mode = "async" =>
        ~\E p, q \in Procs :
            /\ p # q
            /\ Thread(p) = Thread(q)
            /\ co[p].pc = "acquire"
            /\ running[Thread(p)] = p
            /\ lock = q
            /\ co[q].pc = "closing"

\* The coroutines inside the with block of cache_async_session.
InCritical(c) ==
    {p \in Procs : c[p].pc \in {"cache", "close", "closing", "release"}}

\* C15: every mutation of the async cache structure (insert, overwrite,
\* eviction) is made by the holder of _async_session_cache_lock, inside
\* the with block; at most one caller is inside the with block at a time,
\* and it is the holder, so the structural updates of two
\* cache_async_session calls are never interleaved.
C15_MutationsUnderLock ==
    [][ mode = "async" =>
          /\ Cardinality(InCritical(co')) <= 1
          /\ \A p \in InCritical(co') : lock' = p
          /\ data' # data =>
                /\ lock \in Procs
                /\ InCritical(co) = {lock}
                /\ co[lock].pc = "cache"
                /\ lock' = lock
                /\ \A q \in Procs \ {lock} : co'[q] = co[q]
      ]_vars

\* C15 witness: a caller has evicted an entry inside the with block and
\* holds the lock while another caller waits at the acquire.
C15_Witness ==
    /\ mode = "async"
    /\ \E p, q \in Procs :
          /\ p # q
          /\ lock = p
          /\ co[p].pc \in {"close", "closing", "release"}
          /\ co[p].evicted # <<>>
          /\ co[q].pc = "acquire"
          /\ running[Thread(q)] = q

\* C16: when two get_async_session calls for one key both miss, both
\* build a session and both insert it, the second insert overwrites the
\* first in place and evicts nothing; the overwritten session is then in
\* no cache entry and no list of sessions to close, and is never closed.
C16_OverwrittenSessionLeaks ==
    [][ mode = "async" =>
          /\ \A p \in Procs :
                (co[p].pc = "cache" /\ co'[p].pc # "cache"
                  /\ Contains(data, co[p].key)) =>
                    /\ KeySeq(data') = KeySeq(data)
                    /\ Lookup(data', co[p].key) = co[p].sess
                    /\ co'[p].evicted = <<>>
                    /\ co'[p].pc = "release"
                    /\ closeCalls' = closeCalls
          /\ \A s \in hist'.lost :
                /\ s \notin Range(ValSeq(data'))
                /\ closeCalls'[s] = 0
                /\ \A p \in Procs : s \notin Range(ValSeq(co'[p].evicted))
      ]_vars

\* C16 witness: only sessions 1 and 2 were ever built, both by
\* get_async_session calls for one key that both missed; session 2
\* overwrote session 1, which is neither resident nor closed; both calls
\* have returned, one with session 1 and the other with session 2.
C16_Witness ==
    /\ mode = "async"
    /\ nextId = 3
    /\ hist.lost = {1}
    /\ hist.handed = {1, 2}
    /\ Len(data) = 1
    /\ data[1][2] = 2
    /\ closeCalls[1] = 0
    /\ \A p \in Procs : co[p].pc = "idle"

\* C17: the containment test, or the insert, and the get_cache_entry of
\* get_async_session are separate steps.  get_cache_entry returns the
\* handle resident at the key when there is one, and raises KeyError
\* exactly when the key is not resident, which at that point means that
\* another caller's insert has evicted it since the test or the insert:
\* the key is then among the evicted keys, and a session this call had
\* inserted is no longer resident.
C17_LookupAfterEviction ==
    [][ mode = "async" =>
          \A p \in Procs :
            (co[p].pc = "lookup" /\ co'[p].pc = "idle") =>
                /\ result'.call = "get"
                /\ Contains(data, co[p].key) =>
                      /\ result'.kind = "ok"
                      /\ Lookup(data, co[p].key) \in hist'.handed
                /\ ~Contains(data, co[p].key) =>
                      /\ result'.kind = "KeyError"
                      /\ co[p].key \in hist.gone
                      /\ hist'.handed = hist.handed
                      /\ co[p].sess # 0 =>
                            co[p].sess \notin Range(ValSeq(data))
      ]_vars

\* C17 witness: a get_async_session call has just raised KeyError from
\* get_cache_entry while another caller, whose insert evicted the key, is
\* still in flight or has returned.
C17_Witness ==
    /\ mode = "async"
    /\ result = [call |-> "get", kind |-> "KeyError"]
    /\ hist.gone # {}
    /\ Len(data) = size

\* C20: in any interleaving of get_async_session calls a session resident
\* in the async cache has never been closed; close is called only on
\* sessions the same cache_async_session call has already taken out of
\* the structure, in the order of their eviction, and no session is
\* closed more than once.
C20_ResidentNeverClosed ==
    mode = "async" =>
        /\ \A i \in 1..Len(data) : closeCalls[data[i][2]] = 0
        /\ \A s \in Sessions : closeCalls[s] <= 1
        /\ \A p \in Procs :
              /\ Len(co[p].closed) <= Len(co[p].evicted)
              /\ co[p].closed
                    = SubSeq(ValSeq(co[p].evicted), 1, Len(co[p].closed))
              /\ Range(ValSeq(co[p].evicted)) \cap Range(ValSeq(data)) = {}
              /\ \A q \in Procs \ {p} :
                    Range(co[p].closed) \cap Range(co[q].closed) = {}

\* C20 witness: a get_async_session call is closing the session its insert
\* evicted, called close on it once, and the session it inserted is
\* resident and not closed.
C20_Witness ==
    /\ mode = "async"
    /\ \E p \in Procs :
          /\ co[p].call = "get"
          /\ co[p].pc = "closing"
          /\ Len(co[p].closed) = 1
          /\ closeCalls[co[p].closed[1]] = 1
          /\ co[p].closed[1] \notin Range(ValSeq(data))
          /\ Contains(data, co[p].key)
          /\ Lookup(data, co[p].key) = co[p].sess
          /\ closeCalls[co[p].sess] = 0

\* The sessions resident in the synchronous cache.
LruResident(l) == {l[i][2] : i \in 1..Len(l)}

\* C12: the synchronous cache holds at most 8 sessions; when the LRU
\* structure evicts an entry, _remove_session closes its session in that
\* same step, exactly once, and closes nothing else; a session that is
\* resident has never been closed.
C12_SyncCapacityAndClose ==
    [][ mode = "sync" =>
          /\ lruSize <= 8
          /\ Len(lru') <= lruSize
          /\ \A s \in LruResident(lru') : closeCalls'[s] = 0
          /\ \A s \in DOMAIN closeCalls : closeCalls'[s] <= 1
          /\ \A i \in 1..Len(lru) :
                ~Contains(lru', lru[i][1]) =>
                    /\ closeCalls[lru[i][2]] = 0
                    /\ closeCalls'[lru[i][2]] = 1
          /\ \A s \in DOMAIN closeCalls :
                closeCalls'[s] # closeCalls[s] =>
                    /\ s \in LruResident(lru)
                    /\ s \notin LruResident(lru')
                    /\ Len(lru) = lruSize
                    /\ lru[1][2] = s
      ]_vars

\* C12 witness: the cache of capacity 8 is full, a ninth endpoint has come
\* in and one session was evicted and closed once.
C12_Witness ==
    /\ mode = "sync"
    /\ lruSize = 8
    /\ Len(lru) = 8
    /\ Contains(lru, 9)
    /\ \E s \in DOMAIN closeCalls :
          /\ closeCalls[s] = 1
          /\ s \notin LruResident(lru)
          /\ \A t \in DOMAIN closeCalls \ {s} : closeCalls[t] = 0

====
